---- MODULE Spec2Model ----
(***************************************************************************)
(* Presence manager (solo/manager/cmd/server.go): the upload handler       *)
(* handleSignalsSubmit, the room resolver determineRoomID, the session     *)
(* store operations on user_presence_sessions and the stale-session        *)
(* reaper cleanUpOldSessions.                                              *)
(*                                                                         *)
(* Time is counted in minutes, the period of the reaper's ticker.          *)
(* Every upload runs on its own goroutine (net/http), the reaper on one    *)
(* more; each SQL statement is one atomic step, and the steps of the       *)
(* goroutines interleave freely.                                           *)
(***************************************************************************)
EXTENDS Integers, Sequences, FiniteSets, TLC

\* ------------------------------------------------------------------ bounds
NumUploaders == 2
NumUsers == 2
MaxTime == 2
MaxUploads == 3
MaxObs == 2
MaxConfidence == 100
MaxRows == 2
\* cleanUpOldSessions takes the threshold as a parameter; the model runs it
\* with a short one so that a session can go stale within MaxTime.
InactivityThreshold == 1

\* ------------------------------------------------- constants of the program
\* handleSignalsSubmit: estimationConfidence >= 20 && estimationConfidence <= 70
InquiryLow == 20
InquiryHigh == 70

Uploaders == 1..NumUploaders
Users == 1..NumUsers

\* ------------------------------------------------------------ identifiers
\* Radio identifiers are short strings; letters come in two cases.
UpperOf == [s \in {"a", "b", "x", "y"} |->
              CASE s = "a" -> "A" [] s = "b" -> "B" [] s = "x" -> "X" [] OTHER -> "Y"]
LowerOf == [s \in {"A", "B", "X", "Y"} |->
              CASE s = "A" -> "a" [] s = "B" -> "b" [] s = "X" -> "x" [] OTHER -> "y"]

\* SQL UPPER($1)
UPPER(s) == IF s \in DOMAIN UpperOf THEN UpperOf[s] ELSE s
\* SQL LOWER($1)
LOWER(s) == IF s \in DOMAIN LowerOf THEN LowerOf[s] ELSE s

\* ------------------------------------------------------- FingerprintIndex
\* A table is a set of rows [id, room_id]; room ids are positive, 0 being
\* what the lookups return with an error.  A query with LIMIT 1 and no
\* ORDER BY may return any matching row: the operators return the set of
\* room ids the query can produce; the empty set is sql.ErrNoRows.  Any
\* error of the query makes determineRoomID skip the observation, exactly
\* as a missing row does.
getRoomIDByBeacon(tbl, beacon) ==
    { r.room_id : r \in { x \in tbl : UPPER(x.id) = UPPER(beacon.id) } }

getRoomIDByWifi(tbl, wifi) ==
    { r.room_id : r \in { x \in tbl : LOWER(x.id) = LOWER(wifi.id) } }

\* First loop of determineRoomID: the values it can leave in bleRoomID.
\* A beacon whose lookup fails is skipped (continue); the first one that
\* resolves sets bleRoomID and ends the loop (break); 0 if none does.
RECURSIVE bleLoop(_, _, _)
bleLoop(beaconTbl, bleSignals, i) ==
    IF i > Len(bleSignals) THEN {0}
    ELSE IF getRoomIDByBeacon(beaconTbl, bleSignals[i]) = {}
         THEN bleLoop(beaconTbl, bleSignals, i + 1)
         ELSE getRoomIDByBeacon(beaconTbl, bleSignals[i])

\* Second loop of determineRoomID: the values it can leave in wifiRoomID.
RECURSIVE wifiLoop(_, _, _)
wifiLoop(wifiTbl, wifiSignals, i) ==
    IF i > Len(wifiSignals) THEN {0}
    ELSE IF getRoomIDByWifi(wifiTbl, wifiSignals[i]) = {}
         THEN wifiLoop(wifiTbl, wifiSignals, i + 1)
         ELSE getRoomIDByWifi(wifiTbl, wifiSignals[i])

\* Mutant of PickRoom: the access point asked before the beacon.
PickRoomWifiFirst(bleRoomID, wifiRoomID) ==
    IF wifiRoomID # 0 THEN [err |-> "none", room |-> wifiRoomID]
    ELSE IF bleRoomID # 0 THEN [err |-> "none", room |-> bleRoomID]
    ELSE [err |-> "NoMatch", room |-> 0]

\* Mutant of PickRoom: no error when nothing resolved, room 0 returned.
PickRoomDefaultZero(bleRoomID, wifiRoomID) ==
    IF bleRoomID # 0 THEN [err |-> "none", room |-> bleRoomID]
    ELSE [err |-> "none", room |-> wifiRoomID]

\* The final if / else if / else of determineRoomID.
PickRoom(bleRoomID, wifiRoomID) ==
    IF bleRoomID # 0 THEN [err |-> "none", room |-> bleRoomID]
    ELSE IF wifiRoomID # 0 THEN [err |-> "none", room |-> wifiRoomID]
    ELSE [err |-> "NoMatch", room |-> 0]

\* Mutant of determineRoomID: the test for no signal at all left out.
determineRoomIDNoEmptyTest(beaconTbl, wifiTbl, bleSignals, wifiSignals) ==
    { PickRoom(b, w) :
        b \in bleLoop(beaconTbl, bleSignals, 1),
        w \in wifiLoop(wifiTbl, wifiSignals, 1) }

\* determineRoomID: the set of results it can return.
determineRoomID(beaconTbl, wifiTbl, bleSignals, wifiSignals) ==
    IF Len(bleSignals) = 0 /\ Len(wifiSignals) = 0
    THEN { [err |-> "NoSignalData", room |-> 0] }
    ELSE { PickRoom(b, w) :
             b \in bleLoop(beaconTbl, bleSignals, 1),
             w \in wifiLoop(wifiTbl, wifiSignals, 1) }

\* ------------------------------------------------------------ SessionStore
\* A row of user_presence_sessions; session_id is the row's index.  end_time
\* is a nullable column (EndTime *time.Time): <<>> is NULL, <<t>> is set.
NoEndTime == <<>>
IsOpen(row) == row.end_time = NoEndTime

\* Mutant of startUserSession: last_seen left out of the INSERT.
startUserSessionNoLastSeen(S, userID, roomID, startTime) ==
    Append(S, [user_id |-> userID, room_id |-> roomID, start_time |-> startTime,
               end_time |-> NoEndTime, last_seen |-> 0])

\* INSERT INTO user_presence_sessions (user_id, room_id, start_time, last_seen)
\* VALUES ($1, $2, $3, $3)
startUserSession(S, userID, roomID, startTime) ==
    Append(S, [user_id |-> userID, room_id |-> roomID, start_time |-> startTime,
               end_time |-> NoEndTime, last_seen |-> startTime])

\* Mutant of endUserSession: SET end_time = $1, last_seen = $1.
endUserSessionSetsLastSeen(S, userID, endTime) ==
    [i \in DOMAIN S |->
        IF S[i].user_id = userID /\ IsOpen(S[i])
        THEN [S[i] EXCEPT !.end_time = <<endTime>>, !.last_seen = endTime]
        ELSE S[i]]

\* Mutant of endUserSession: one open row of the user is ended (the first).
endUserSessionFirstOnly(S, userID, endTime) ==
    [i \in DOMAIN S |->
        IF /\ S[i].user_id = userID
           /\ IsOpen(S[i])
           /\ \A j \in 1..(i - 1) : ~(S[j].user_id = userID /\ IsOpen(S[j]))
        THEN [S[i] EXCEPT !.end_time = <<endTime>>]
        ELSE S[i]]

\* Mutant of endUserSession: the open rows of the user are deleted.
endUserSessionDeletes(S, userID, endTime) ==
    SelectSeq(S, LAMBDA row : ~(row.user_id = userID /\ IsOpen(row)))

\* Mutant of endUserSession: WHERE end_time IS NULL, the user forgotten.
endUserSessionAnyUser(S, userID, endTime) ==
    [i \in DOMAIN S |->
        IF IsOpen(S[i]) THEN [S[i] EXCEPT !.end_time = <<endTime>>] ELSE S[i]]

\* Mutant of endUserSession: WHERE user_id = $2, closed rows included.
endUserSessionClosedToo(S, userID, endTime) ==
    [i \in DOMAIN S |->
        IF S[i].user_id = userID THEN [S[i] EXCEPT !.end_time = <<endTime>>] ELSE S[i]]

\* UPDATE ... SET end_time = $1 WHERE user_id = $2 AND end_time IS NULL
endUserSession(S, userID, endTime) ==
    [i \in DOMAIN S |->
        IF S[i].user_id = userID /\ IsOpen(S[i])
        THEN [S[i] EXCEPT !.end_time = <<endTime>>]
        ELSE S[i]]

\* The error endUserSession returns: that of the statement (or of
\* RowsAffected); the number of rows affected is only logged.
endUserSessionErr(S, userID, dbFailed) == dbFailed

\* Mutant of updateLastSeen: WHERE user_id = $2 AND end_time IS NOT NULL.
updateLastSeenOfEnded(S, userID, lastSeen) ==
    [i \in DOMAIN S |->
        IF S[i].user_id = userID /\ ~IsOpen(S[i])
        THEN [S[i] EXCEPT !.last_seen = lastSeen]
        ELSE S[i]]

\* Mutant of updateLastSeen: WHERE user_id = $2, closed rows included.
updateLastSeenClosedToo(S, userID, lastSeen) ==
    [i \in DOMAIN S |->
        IF S[i].user_id = userID THEN [S[i] EXCEPT !.last_seen = lastSeen] ELSE S[i]]

\* UPDATE ... SET last_seen = $1 WHERE user_id = $2 AND end_time IS NULL
updateLastSeen(S, userID, lastSeen) ==
    [i \in DOMAIN S |->
        IF S[i].user_id = userID /\ IsOpen(S[i])
        THEN [S[i] EXCEPT !.last_seen = lastSeen]
        ELSE S[i]]

\* Mutant of selectOpenRoom: WHERE end_time IS NOT NULL.
selectOpenRoomEnded(S, userID) ==
    { S[i].room_id : i \in { j \in DOMAIN S : S[j].user_id = userID /\ ~IsOpen(S[j]) } }

\* SELECT room_id ... WHERE user_id = $1 AND end_time IS NULL, read with
\* QueryRow(...).Scan: the room ids the scan can yield ({}: sql.ErrNoRows).
selectOpenRoom(S, userID) ==
    { S[i].room_id : i \in { j \in DOMAIN S : S[j].user_id = userID /\ IsOpen(S[j]) } }

\* SELECT user_id, last_seen ... WHERE end_time IS NULL AND last_seen < $1:
\* the user ids of the rows found, in row order (usersToEnd).
RECURSIVE selectStaleUsers(_, _, _)
selectStaleUsers(S, cutoffTime, i) ==
    IF i > Len(S) THEN <<>>
    ELSE IF IsOpen(S[i]) /\ S[i].last_seen < cutoffTime
         THEN <<S[i].user_id>> \o selectStaleUsers(S, cutoffTime, i + 1)
         ELSE selectStaleUsers(S, cutoffTime, i + 1)

\* --------------------------------------------------------- ConfidenceFusion
\* Mutant of needsInquiry: the range taken without its ends.
needsInquiryOpenRange(estimationConfidence) ==
    estimationConfidence > InquiryLow /\ estimationConfidence < InquiryHigh

\* if estimationConfidence >= 20 && estimationConfidence <= 70
needsInquiry(estimationConfidence) ==
    estimationConfidence >= InquiryLow /\ estimationConfidence <= InquiryHigh

\* Mutant of inquiryAgrees: a tie taken as a contradiction.
inquiryAgreesStrictly(estimationConfidence, inquiryConfidence) ==
    estimationConfidence > inquiryConfidence

\* Mutant of inquiryAgrees: the comparison turned round.
inquiryAgreesReversed(estimationConfidence, inquiryConfidence) ==
    estimationConfidence <= inquiryConfidence

\* if estimationConfidence >= inquiryConfidence  (inside the inquiry branch)
inquiryAgrees(estimationConfidence, inquiryConfidence) ==
    estimationConfidence >= inquiryConfidence

\* if estimationConfidence > 70  (outside the inquiry branch)
confidentPresence(estimationConfidence) ==
    estimationConfidence > InquiryHigh

\* First test of updateUserPresence: the branch it takes.
updateUserPresenceBranch(estimationConfidence, inquiryConfidence) ==
    IF inquiryConfidence > estimationConfidence THEN "end" ELSE "lookup"

\* ------------------------------------------------------------------- state
VARIABLES
    sessions,      \* user_presence_sessions: sequence of rows
    beacons,       \* table beacons: set of [id, room_id]
    wifiAPs,       \* table wifi_access_points: set of [id, room_id]
    now,           \* time.Now(), in minutes
    pc,            \* pc[p]: where upload goroutine p stands in handleSignalsSubmit
    req,           \* req[p]: the locals of upload goroutine p
    uploads,       \* number of uploads received so far
    tickPending,   \* a tick waits in ticker.C
    reaperPC,      \* where cleanUpOldSessions stands: "wait" (on ticker.C) or "end"
    cutoffTime,    \* cleanUpOldSessions: cutoffTime of the running sweep
    usersToEnd     \* cleanUpOldSessions: the users still to end in this sweep

vars == <<sessions, beacons, wifiAPs, now, pc, req, uploads, tickPending,
          reaperPC, cutoffTime, usersToEnd>>

reaperVars == <<tickPending, reaperPC, cutoffTime, usersToEnd>>
indexVars == <<beacons, wifiAPs>>

\* The locals of an upload before it is received.
NoRequest ==
    [userID |-> 0, bleSignals |-> <<>>, wifiSignals |-> <<>>, currentTime |-> 0,
     estimationConfidence |-> 0, inquiryConfidence |-> 0, inquiryCalls |-> 0,
     disposition |-> "none", roomID |-> 0, failure |-> "none",
     storeErr |-> FALSE, archived |-> FALSE, response |-> "none"]

\* ------------------------------------------------------------------ inputs
Obs(id, rssi) == [id |-> id, rssi |-> rssi]
SeqUpTo(S, n) == UNION { [1..k -> S] : k \in 0..n }

\* The fingerprint tables of the concurrent model: beacon "A" is in room 1,
\* beacon "b" in room 2, access point "x" in room 3.
MainBeacons == { [id |-> "A", room_id |-> 1], [id |-> "b", room_id |-> 2] }
MainWifiAPs == { [id |-> "x", room_id |-> 3] }

\* The uploads of the concurrent model: an unknown access point alone, a
\* beacon of room 1, and an unknown beacon then a beacon of room 2 together
\* with an access point of room 3.
MainInputs ==
    { [ble |-> <<>>, wifi |-> <<Obs("z", -60)>>],
      [ble |-> <<Obs("a", -50)>>, wifi |-> <<>>],
      [ble |-> <<Obs("q", -40), Obs("B", -70)>>, wifi |-> <<Obs("X", -60)>>] }

\* Answers of the estimator and of the arbiter in the concurrent model.
MainEstimations == {10, 45, 80}
MainInquiries == {40, 60}

\* ----------------------------------------------------- handleSignalsSubmit
\* The handler runs from the request to its first store statement without
\* touching shared state, and from its last store statement to the response
\* likewise: these stretches are taken in one step with the statement they
\* lead to or follow.  An outcome is [pc, req]: where the goroutine stands
\* next and its locals.

\* What is left of an upload once the handler has returned: the response,
\* whether a store statement of it failed, whether it was archived, the
\* step that failed and what that step was given (the signals for room
\* resolution, the estimation for the inquiry).
Returned(r, response) ==
    [NoRequest EXCEPT
        !.response = response, !.storeErr = r.storeErr,
        !.archived = r.archived, !.failure = r.failure,
        !.bleSignals = IF r.failure \in {"NoSignalData", "NoMatch"}
                       THEN r.bleSignals ELSE <<>>,
        !.wifiSignals = IF r.failure \in {"NoSignalData", "NoMatch"}
                        THEN r.wifiSignals ELSE <<>>,
        !.estimationConfidence = IF r.failure = "inquiry"
                                 THEN r.estimationConfidence ELSE 0,
        !.inquiryCalls = IF r.failure = "inquiry" THEN r.inquiryCalls ELSE 0]

\* http.Error(...); return, after the step named by cause failed
Fails(r, cause) ==
    [pc |-> "failed", req |-> Returned([r EXCEPT !.failure = cause], "error")]

\* The locals after request parsing: the user, the parsed signals and
\* currentTime := time.Now().
NewRequest(u, in, t) ==
    [NoRequest EXCEPT !.userID = u, !.bleSignals = in.ble,
                      !.wifiSignals = in.wifi, !.currentTime = t]

\* Mutant of presentBranch: the error of determineRoomID is noted and the
\* handler goes on to updateUserPresence.
presentBranchGoesOn(r, beaconTbl, wifiTbl, passedInquiry) ==
    { [pc |-> IF updateUserPresenceBranch(r.estimationConfidence,
                                          passedInquiry) = "end"
              THEN "endInUpdate" ELSE "lookup",
       req |-> [r EXCEPT !.roomID = out.room, !.failure = out.err]] :
      out \in determineRoomID(beaconTbl, wifiTbl, r.bleSignals, r.wifiSignals) }

\* A Present branch of the handler: determineRoomID, then the entry of
\* updateUserPresence with the inquiry confidence the handler passes.
presentBranch(r, beaconTbl, wifiTbl, passedInquiry) ==
    { IF out.err # "none"
      THEN Fails(r, out.err)
      ELSE [pc |-> IF updateUserPresenceBranch(r.estimationConfidence,
                                               passedInquiry) = "end"
                   THEN "endInUpdate" ELSE "lookup",
            req |-> [r EXCEPT !.roomID = out.room]] :
      out \in determineRoomID(beaconTbl, wifiTbl, r.bleSignals, r.wifiSignals) }

\* The inquiry branch after forwardFilesToInquiryServer answered i.
afterInquiry(r, beaconTbl, wifiTbl, i) ==
    IF inquiryAgrees(r.estimationConfidence, i)
    THEN presentBranch([r EXCEPT !.inquiryConfidence = i,
                                 !.disposition = "Present"],
                       beaconTbl, wifiTbl, i)
    ELSE { [pc |-> "end",
            req |-> [r EXCEPT !.inquiryConfidence = i,
                              !.disposition = "AbsentWithArchive"]] }

\* Mutant of afterEstimation: a failed inquiry is taken as Absent.
afterEstimationDefaultsAbsent(r, beaconTbl, wifiTbl, e, Inquiries) ==
    IF needsInquiry(e)
    THEN { [pc |-> "end",
            req |-> [r EXCEPT !.estimationConfidence = e,
                              !.inquiryCalls = @ + 1,
                              !.failure = "inquiry",
                              !.disposition = "Absent"]] } \cup
         UNION { afterInquiry([r EXCEPT !.estimationConfidence = e,
                                        !.inquiryCalls = @ + 1],
                              beaconTbl, wifiTbl, i) : i \in Inquiries }
    ELSE IF confidentPresence(e)
         THEN presentBranch([r EXCEPT !.estimationConfidence = e,
                                      !.disposition = "Present"],
                            beaconTbl, wifiTbl, 0)
         ELSE { [pc |-> "end",
                 req |-> [r EXCEPT !.estimationConfidence = e,
                                   !.disposition = "Absent"]] }

\* The handler after forwardFilesToEstimationServer answered e: the inquiry
\* (which answers some i of Inquiries, or fails), then the branches.
afterEstimation(r, beaconTbl, wifiTbl, e, Inquiries) ==
    IF needsInquiry(e)
    THEN { Fails([r EXCEPT !.estimationConfidence = e,
                           !.inquiryCalls = @ + 1], "inquiry") } \cup
         UNION { afterInquiry([r EXCEPT !.estimationConfidence = e,
                                        !.inquiryCalls = @ + 1],
                              beaconTbl, wifiTbl, i) : i \in Inquiries }
    ELSE IF confidentPresence(e)
         THEN presentBranch([r EXCEPT !.estimationConfidence = e,
                                      !.disposition = "Present"],
                            beaconTbl, wifiTbl, 0)
         ELSE { [pc |-> "end",
                 req |-> [r EXCEPT !.estimationConfidence = e,
                                   !.disposition = "Absent"]] }

\* Mutant of afterStore: the negative sample is copied in every branch.
afterStoreArchivesAlways(r, archive) ==
    LET copied == [r EXCEPT !.archived = TRUE]
    IN  { Fails(r, "archive"),
          [pc |-> "done", req |-> Returned(copied, "ok")],
          Fails(copied, "response") }

\* The handler from its last store statement to the response: the negative
\* sample copy in the AbsentWithArchive branch (a failure answers 500), then
\* the JSON response (an encoding failure answers 500).
afterStore(r, archive) ==
    LET copied == [r EXCEPT !.archived = archive]
    IN  (IF archive THEN { Fails(r, "archive") } ELSE {}) \cup
        { [pc |-> "done", req |-> Returned(copied, "ok")],
          Fails(copied, "response") }

\* A request arrives and runs to its first store statement.  A malformed
\* request, an unknown user, an empty file or a failed estimation ends it.
Receive(p, Inputs, Estimations, Inquiries) ==
    /\ pc[p] \in {"idle", "done", "failed"}
    /\ uploads < MaxUploads
    /\ uploads' = uploads + 1
    /\ \E o \in { Fails(NoRequest, "request"), Fails(NoRequest, "estimation") } \cup
                UNION { afterEstimation(NewRequest(u, in, now), beacons, wifiAPs,
                                        e, Inquiries) :
                        u \in Users, in \in Inputs, e \in Estimations } :
          /\ req' = [req EXCEPT ![p] = o.req]
          /\ pc' = [pc EXCEPT ![p] = o.pc]
    /\ UNCHANGED <<sessions, now, indexVars, reaperVars>>

\* updateUserPresence: the SELECT of the open session.  sql.ErrNoRows leads
\* to startUserSession, a row to updateLastSeen; any other error is returned
\* to the handler, which logs it and goes on to the response.
Lookup(p) ==
    /\ pc[p] = "lookup"
    /\ \/ /\ selectOpenRoom(sessions, req[p].userID) = {}
          /\ req' = req
          /\ pc' = [pc EXCEPT ![p] = "start"]
       \/ /\ selectOpenRoom(sessions, req[p].userID) # {}
          /\ req' = req
          /\ pc' = [pc EXCEPT ![p] = "touch"]
       \/ \E o \in afterStore([req[p] EXCEPT !.storeErr = TRUE], FALSE) :
             /\ req' = [req EXCEPT ![p] = o.req]
             /\ pc' = [pc EXCEPT ![p] = o.pc]
    /\ UNCHANGED <<sessions, now, uploads, indexVars, reaperVars>>

\* Mutant of StartSession: after the INSERT the upload goes on to
\* updateLastSeen.
StartSessionThenTouch(p) ==
    /\ pc[p] = "start"
    /\ sessions' = startUserSession(sessions, req[p].userID, req[p].roomID,
                                    req[p].currentTime)
    /\ pc' = [pc EXCEPT ![p] = "touch"]
    /\ UNCHANGED <<req, now, uploads, indexVars, reaperVars>>

\* updateUserPresence, sql.ErrNoRows: startUserSession, whose error the
\* handler logs; then the response.
StartSession(p) ==
    /\ pc[p] = "start"
    /\ \E failed \in BOOLEAN :
          /\ sessions' = IF failed THEN sessions
                         ELSE startUserSession(sessions, req[p].userID,
                                               req[p].roomID, req[p].currentTime)
          /\ \E o \in afterStore([req[p] EXCEPT !.storeErr = failed], FALSE) :
                /\ req' = [req EXCEPT ![p] = o.req]
                /\ pc' = [pc EXCEPT ![p] = o.pc]
    /\ UNCHANGED <<now, uploads, indexVars, reaperVars>>

\* updateUserPresence, a row was found: updateLastSeen; then the response.
Heartbeat(p) ==
    /\ pc[p] = "touch"
    /\ \E failed \in BOOLEAN :
          /\ sessions' = IF failed THEN sessions
                         ELSE updateLastSeen(sessions, req[p].userID,
                                             req[p].currentTime)
          /\ \E o \in afterStore([req[p] EXCEPT !.storeErr = failed], FALSE) :
                /\ req' = [req EXCEPT ![p] = o.req]
                /\ pc' = [pc EXCEPT ![p] = o.pc]
    /\ UNCHANGED <<now, uploads, indexVars, reaperVars>>

\* endUserSession, called by the handler (its two absent branches) or by
\* updateUserPresence; its error is logged.  The handler's inquiry branch
\* then archives the upload as a negative sample.
EndSession(p) ==
    /\ pc[p] \in {"end", "endInUpdate"}
    /\ \E failed \in BOOLEAN :
          /\ sessions' = IF failed THEN sessions
                         ELSE endUserSession(sessions, req[p].userID,
                                             req[p].currentTime)
          /\ \E o \in afterStore([req[p] EXCEPT !.storeErr =
                                     endUserSessionErr(sessions, req[p].userID, failed)],
                                 pc[p] = "end" /\
                                 needsInquiry(req[p].estimationConfidence)) :
                /\ req' = [req EXCEPT ![p] = o.req]
                /\ pc' = [pc EXCEPT ![p] = o.pc]
    /\ UNCHANGED <<now, uploads, indexVars, reaperVars>>

\* ------------------------------------------------------ cleanUpOldSessions
\* A minute passes; the ticker puts a tick in ticker.C (capacity 1).
AdvanceClock ==
    /\ now < MaxTime
    /\ now' = now + 1
    /\ tickPending' = TRUE
    /\ UNCHANGED <<sessions, pc, req, uploads, indexVars, reaperPC, cutoffTime,
                   usersToEnd>>

\* Mutant of ReaperScan: a failed query ends the loop (return for continue).
ReaperScanReturnsOnError ==
    /\ reaperPC = "wait"
    /\ tickPending
    /\ tickPending' = FALSE
    /\ \/ /\ cutoffTime' = now - InactivityThreshold
          /\ usersToEnd' = selectStaleUsers(sessions, now - InactivityThreshold, 1)
          /\ reaperPC' = IF usersToEnd' = <<>> THEN "wait" ELSE "end"
       \/ /\ cutoffTime' = now - InactivityThreshold
          /\ usersToEnd' = <<>>
          /\ reaperPC' = "returned"
    /\ UNCHANGED <<sessions, now, pc, req, uploads, indexVars>>

\* <-ticker.C, cutoffTime, the query and the rows loop.  A failed query is
\* logged and the loop waits for the next tick.
ReaperScan ==
    /\ reaperPC = "wait"
    /\ tickPending
    /\ tickPending' = FALSE
    /\ \/ /\ cutoffTime' = now - InactivityThreshold
          /\ usersToEnd' = selectStaleUsers(sessions, now - InactivityThreshold, 1)
          /\ reaperPC' = IF usersToEnd' = <<>> THEN "wait" ELSE "end"
       \/ /\ cutoffTime' = now - InactivityThreshold
          /\ usersToEnd' = <<>>
          /\ reaperPC' = "wait"
    /\ UNCHANGED <<sessions, now, pc, req, uploads, indexVars>>

\* Mutant of ReaperEnd: a failed endUserSession leaves the loop over
\* usersToEnd (break after the error is logged).
ReaperEndBreaksOnError ==
    /\ reaperPC = "end"
    /\ \/ /\ sessions' = endUserSession(sessions, Head(usersToEnd), now)
          /\ usersToEnd' = Tail(usersToEnd)
          /\ reaperPC' = IF Tail(usersToEnd) = <<>> THEN "wait" ELSE "end"
       \/ /\ sessions' = sessions
          /\ usersToEnd' = <<>>
          /\ reaperPC' = "wait"
    /\ UNCHANGED <<now, pc, req, uploads, indexVars, tickPending, cutoffTime>>

\* One round of the loop over usersToEnd: endTime := time.Now(), then
\* endUserSession; its error is logged and the loop goes on.
ReaperEnd ==
    /\ reaperPC = "end"
    /\ \E failed \in BOOLEAN :
          sessions' = IF failed THEN sessions
                      ELSE endUserSession(sessions, Head(usersToEnd), now)
    /\ usersToEnd' = Tail(usersToEnd)
    /\ reaperPC' = IF Tail(usersToEnd) = <<>> THEN "wait" ELSE "end"
    /\ UNCHANGED <<now, pc, req, uploads, indexVars, tickPending, cutoffTime>>

\* ----------------------------------------------------------- specification
Init ==
    /\ sessions = <<>>
    /\ beacons = MainBeacons
    /\ wifiAPs = MainWifiAPs
    /\ now = 0
    /\ pc = [p \in Uploaders |-> "idle"]
    /\ req = [p \in Uploaders |-> NoRequest]
    /\ uploads = 0
    /\ tickPending = FALSE
    /\ reaperPC = "wait"
    /\ cutoffTime = 0
    /\ usersToEnd = <<>>

Upload(p) ==
    \/ Receive(p, MainInputs, MainEstimations, MainInquiries)
    \/ Lookup(p)
    \/ StartSession(p)
    \/ Heartbeat(p)
    \/ EndSession(p)

Next ==
    \/ \E p \in Uploaders : Upload(p)
    \/ AdvanceClock
    \/ ReaperScan
    \/ ReaperEnd

Spec == Init /\ [][Next]_vars

\* --------------------------------------------- the fusion table, all values
\* The first upload, of a resolvable fingerprint, with the estimator and the
\* arbiter answering any value of 0..MaxConfidence.
Confidences == 0..MaxConfidence
FusionInputs == { [ble |-> <<Obs("a", -50)>>, wifi |-> <<>>] }

NextFusion == uploads = 0 /\ Receive(1, FusionInputs, Confidences, Confidences)

SpecFusion == Init /\ [][NextFusion]_vars

\* ------------------------------------------- room resolution, all the lists
\* The first upload, confidently present, for every pair of observation lists of up to
\* MaxObs entries, against several contents of the fingerprint tables (one
\* of them holds the same beacon twice, in two cases and two rooms).
BeaconTables ==
    { {},
      { [id |-> "A", room_id |-> 1] },
      { [id |-> "a", room_id |-> 1], [id |-> "B", room_id |-> 2] },
      { [id |-> "a", room_id |-> 1], [id |-> "A", room_id |-> 2] } }
WifiTables ==
    { {},
      { [id |-> "x", room_id |-> 3] },
      { [id |-> "X", room_id |-> 3], [id |-> "y", room_id |-> 1] } }

BleObservations == { Obs(id, rssi) : id \in {"a", "B", "q"}, rssi \in {-40, -70} }
WifiObservations == { Obs(id, -60) : id \in {"X", "z"} }
ResolveInputs ==
    { [ble |-> b, wifi |-> w] :
        b \in SeqUpTo(BleObservations, MaxObs), w \in SeqUpTo(WifiObservations, MaxObs) }

InitResolve ==
    /\ sessions = <<>>
    /\ beacons \in BeaconTables
    /\ wifiAPs \in WifiTables
    /\ now = 0
    /\ pc = [p \in Uploaders |-> "idle"]
    /\ req = [p \in Uploaders |-> NoRequest]
    /\ uploads = 0
    /\ tickPending = FALSE
    /\ reaperPC = "wait"
    /\ cutoffTime = 0
    /\ usersToEnd = <<>>

NextResolve == uploads = 0 /\ Receive(1, ResolveInputs, {80}, {0})

SpecResolve == InitResolve /\ [][NextResolve]_vars

\* ------------------------------------------------ the reaper, no upload
\* The reaper and the clock alone, from a table of up to MaxRows sessions
\* that uploads have left by time t: sessions of any user, open or ended,
\* last seen at any time up to t (a user may have two open sessions: C1).
SessionRows(t) ==
    { [user_id |-> u, room_id |-> 1, start_time |-> 0, end_time |-> e,
       last_seen |-> l] :
        u \in Users, l \in 0..t, e \in {NoEndTime, <<t>>} }
SessionTables(t) == SeqUpTo(SessionRows(t), MaxRows)

\* A tick waits in ticker.C at any time of 0..MaxTime.
InitReaper ==
    /\ now \in 0..MaxTime
    /\ sessions \in SessionTables(now)
    /\ beacons = MainBeacons
    /\ wifiAPs = MainWifiAPs
    /\ pc = [p \in Uploaders |-> "idle"]
    /\ req = [p \in Uploaders |-> NoRequest]
    /\ uploads = 0
    /\ tickPending = TRUE
    /\ reaperPC = "wait"
    /\ cutoffTime = 0
    /\ usersToEnd = <<>>

NextReaper ==
    \/ AdvanceClock
    \/ ReaperScan
    \/ ReaperEnd

SpecReaper == InitReaper /\ [][NextReaper]_vars

\* ------------------------------------ the reaper against Present uploads
\* Uploads that are all confidently present, of a resolvable fingerprint,
\* with the clock and the reaper: no upload ends a session, the reaper is
\* the only one to do so.
UploadPresent(p) ==
    \/ Receive(p, FusionInputs, {80}, {0})
    \/ Lookup(p)
    \/ StartSession(p)
    \/ Heartbeat(p)

NextRace ==
    \/ \E p \in Uploaders : UploadPresent(p)
    \/ AdvanceClock
    \/ ReaperScan
    \/ ReaperEnd

SpecRace == Init /\ [][NextRace]_vars

\* ------------------------------------------- the reaper, for ever, no upload
\* The uploads have stopped at time 0, early enough for the clock of the
\* model to run past the threshold.  Time after MaxTime is not counted: the
\* ticker goes on firing and now stays.
HorizonTick ==
    /\ now = MaxTime
    /\ tickPending' = TRUE
    /\ UNCHANGED <<sessions, now, pc, req, uploads, indexVars, reaperPC,
                   cutoffTime, usersToEnd>>

InitQuiet == InitReaper /\ now + InactivityThreshold < MaxTime

NextQuiet ==
    \/ AdvanceClock
    \/ HorizonTick
    \/ ReaperScan
    \/ ReaperEnd

\* The rounds of the reaper whose store statement succeeds.
ReaperScanOk ==
    ReaperScan /\ usersToEnd' = selectStaleUsers(sessions, now - InactivityThreshold, 1)
ReaperEndOk(u) ==
    ReaperEnd /\ Head(usersToEnd) = u /\ sessions' = endUserSession(sessions, u, now)

\* Time passes and the ticker fires (time.NewTicker); the reaper's goroutine
\* runs, and its query and its write for each user succeed again and again.
FairQuiet ==
    /\ WF_vars(AdvanceClock)
    /\ WF_vars(HorizonTick)
    /\ SF_vars(ReaperScanOk)
    /\ \A u \in Users : SF_vars(ReaperEndOk(u))

SpecQuiet == InitQuiet /\ [][NextQuiet]_vars /\ FairQuiet

\* ------------------------------------------- uploads, collaborators waited for
\* The handler with its two outgoing calls as steps of their own: the
\* upload waits for the estimator ("estimating") and for the arbiter
\* ("inquiring"), which answer or stay silent.

\* The request is parsed and forwardFilesToEstimationServer sends it on.
Submit(p) ==
    /\ pc[p] \in {"idle", "done", "failed"}
    /\ uploads < MaxUploads
    /\ uploads' = uploads + 1
    /\ \/ \E o \in { Fails(NoRequest, "request") } :
             /\ req' = [req EXCEPT ![p] = o.req]
             /\ pc' = [pc EXCEPT ![p] = o.pc]
       \/ \E u \in Users, in \in FusionInputs :
             /\ req' = [req EXCEPT ![p] = NewRequest(u, in, now)]
             /\ pc' = [pc EXCEPT ![p] = "estimating"]
    /\ UNCHANGED <<sessions, now, indexVars, reaperVars>>

\* client.Do returns the estimator's answer: an error, or a confidence,
\* with which the handler goes on to forwardFilesToInquiryServer or to its
\* branches.
EstimatorAnswers(p) ==
    /\ pc[p] = "estimating"
    /\ \E o \in { Fails(req[p], "estimation") } \cup
                { [pc |-> "inquiring",
                   req |-> [req[p] EXCEPT !.estimationConfidence = e,
                                          !.inquiryCalls = @ + 1]] :
                  e \in { x \in MainEstimations : needsInquiry(x) } } \cup
                UNION { afterEstimation(req[p], beacons, wifiAPs, e, {}) :
                        e \in { x \in MainEstimations : ~needsInquiry(x) } } :
          /\ req' = [req EXCEPT ![p] = o.req]
          /\ pc' = [pc EXCEPT ![p] = o.pc]
    /\ UNCHANGED <<sessions, now, uploads, indexVars, reaperVars>>

\* http.Client{Timeout: 30 * time.Second}: client.Do gives up on a silent
\* estimator.
EstimatorTimeout(p) ==
    /\ pc[p] = "estimating"
    /\ \E o \in { Fails(req[p], "estimation") } :
          /\ req' = [req EXCEPT ![p] = o.req]
          /\ pc' = [pc EXCEPT ![p] = o.pc]
    /\ UNCHANGED <<sessions, now, uploads, indexVars, reaperVars>>

\* http.Post returns the arbiter's answer: an error, or a confidence.
\* http.Post uses http.DefaultClient, which has no Timeout: nothing else
\* ends the wait.
InquiryAnswers(p) ==
    /\ pc[p] = "inquiring"
    /\ \E o \in { Fails(req[p], "inquiry") } \cup
                UNION { afterInquiry(req[p], beacons, wifiAPs, i) :
                        i \in MainInquiries } :
          /\ req' = [req EXCEPT ![p] = o.req]
          /\ pc' = [pc EXCEPT ![p] = o.pc]
    /\ UNCHANGED <<sessions, now, uploads, indexVars, reaperVars>>

\* The steps upload goroutine p takes by itself, whatever its collaborators do.
Alone(p) ==
    \/ EstimatorTimeout(p)
    \/ Lookup(p)
    \/ StartSession(p)
    \/ Heartbeat(p)
    \/ EndSession(p)

UploadStall(p) ==
    \/ Submit(p)
    \/ EstimatorAnswers(p)
    \/ InquiryAnswers(p)
    \/ Alone(p)

NextStall == \E p \in Uploaders : UploadStall(p)

SpecStall == Init /\ [][NextStall]_vars

\* ----------------------------------------- uploads and reaper, one per user
\* The operations of the program run under mutual exclusion per user: from
\* the SELECT of updateUserPresence to its INSERT or UPDATE no other
\* operation on the sessions of that user runs.  The program has no such
\* lock; the lock is held by the upload that stands between its lookup and
\* its write.
LockHolders(u) ==
    { p \in Uploaders : pc[p] \in {"start", "touch"} /\ req[p].userID = u }

UploadLocked(p) ==
    \/ Receive(p, MainInputs, MainEstimations, MainInquiries)
    \/ LockHolders(req[p].userID) = {} /\ Lookup(p)
    \/ StartSession(p)
    \/ Heartbeat(p)
    \/ LockHolders(req[p].userID) = {} /\ EndSession(p)

ReaperEndLocked ==
    /\ reaperPC = "end"
    /\ LockHolders(Head(usersToEnd)) = {}
    /\ ReaperEnd

NextLocked ==
    \/ \E p \in Uploaders : UploadLocked(p)
    \/ AdvanceClock
    \/ ReaperScan
    \/ ReaperEndLocked

SpecLocked == Init /\ [][NextLocked]_vars

\* ================================================================== claims
\* The rows of S that are open sessions of user u.
OpenRows(S, u) == { i \in DOMAIN S : S[i].user_id = u /\ S[i].end_time = <<>> }

\* The uploads that have taken a disposition and not yet returned.
Deciding == { p \in Uploaders : pc[p] \in {"lookup", "start", "touch", "end", "endInUpdate"} }

\* C1: under any interleaving of uploads and reaper ticks, every user has at
\* most one session row with end_time unset.
C1_AtMostOneOpenSession ==
    \A u \in Users : Cardinality(OpenRows(sessions, u)) <= 1

\* The disposition the decision table gives for estimation e and arbiter
\* answer i.
TableDisposition(e, i) ==
    IF e < 20 THEN "Absent"
    ELSE IF e <= 70 THEN (IF e >= i THEN "Present" ELSE "AbsentWithArchive")
    ELSE "Present"

\* C2: for every estimation e and arbiter answer i in 0..100 the disposition
\* an upload takes is the one of the decision table (a tie e = i is Present);
\* a Present upload goes on to the open-session lookup, an Absent or
\* AbsentWithArchive one to EndSession; above 70 the inquiry confidence is 0.
C2_DecisionTable ==
    \A p \in Deciding :
        LET e == req[p].estimationConfidence
            i == req[p].inquiryConfidence
        IN  /\ req[p].disposition = TableDisposition(e, i)
            /\ (req[p].disposition = "Present") = (pc[p] \in {"lookup", "start", "touch"})
            /\ (req[p].disposition \in {"Absent", "AbsentWithArchive"}) = (pc[p] = "end")
            /\ (e > 70 => i = 0)

\* An upload took Present on a tie inside the inquiry range.
C2_Witness ==
    \E p \in Uploaders :
        /\ pc[p] = "lookup"
        /\ req[p].estimationConfidence = 45
        /\ req[p].inquiryConfidence = 45
        /\ req[p].disposition = "Present"

\* C3: an upload calls the arbiter exactly once when its estimation lies in
\* [20,70] (also when that call fails) and never otherwise.
C3_InquiryOnlyInRange ==
    \A p \in Uploaders :
        /\ p \in Deciding =>
              req[p].inquiryCalls =
                  IF req[p].estimationConfidence >= 20 /\ req[p].estimationConfidence <= 70
                  THEN 1 ELSE 0
        /\ req[p].inquiryCalls <= 1
        /\ req[p].inquiryCalls = 1 =>
              (req[p].estimationConfidence >= 20 /\ req[p].estimationConfidence <= 70)

\* An upload at the lower end of the range has called the arbiter once.
C3_Witness ==
    \E p \in Uploaders :
        /\ pc[p] = "end"
        /\ req[p].estimationConfidence = 20
        /\ req[p].inquiryCalls = 1

\* Upload p takes a step out of position at and its store statement, if it
\* ran one, did not fail.
StepsFrom(p, at) == pc[p] = at /\ pc'[p] # at /\ ~req'[p].storeErr

\* C4: a Present upload whose lookup finds no open session of its user goes
\* on to StartSession, and StartSession appends exactly one row, with the
\* resolved room, start_time = last_seen = the upload's time and end_time
\* unset, every other row kept; if the user still has no open session when
\* the row is written, the new row is then the user's only open session.
C4_StartSessionCreatesOneRow ==
    [][\A p \in Uploaders :
          LET u == req[p].userID
              t == req[p].currentTime
              n == Len(sessions)
          IN  /\ (StepsFrom(p, "lookup") /\ OpenRows(sessions, u) = {})
                    => pc'[p] = "start"
              /\ StepsFrom(p, "start") =>
                    /\ req[p].disposition = "Present"
                    /\ Len(sessions') = n + 1
                    /\ \A i \in 1..n : sessions'[i] = sessions[i]
                    /\ sessions'[n + 1] =
                          [user_id |-> u, room_id |-> req[p].roomID,
                           start_time |-> t, end_time |-> <<>>, last_seen |-> t]
                    /\ (OpenRows(sessions, u) = {} => OpenRows(sessions', u) = {n + 1})
      ]_vars

\* A first upload has returned without a store error after the clock moved,
\* and the store holds the one open session it created.
C4_Witness ==
    /\ uploads = 1
    /\ now > 0
    /\ \E p \in Uploaders : pc[p] = "done" /\ ~req[p].storeErr
    /\ Len(sessions) = 1
    /\ sessions[1].end_time = <<>>
    /\ sessions[1].start_time = sessions[1].last_seen
    /\ sessions[1].start_time > 0

\* C5: a Present upload whose lookup finds an open session of its user goes
\* on to Heartbeat, and Heartbeat creates no row and changes nothing but
\* last_seen, set to the upload's time, of the user's open rows: room_id,
\* start_time and end_time stay, whatever room the upload resolved.
C5_HeartbeatOnlyTouchesLastSeen ==
    [][\A p \in Uploaders :
          LET u == req[p].userID
              t == req[p].currentTime
          IN  /\ (StepsFrom(p, "lookup") /\ OpenRows(sessions, u) # {})
                    => pc'[p] = "touch"
              /\ StepsFrom(p, "touch") =>
                    /\ req[p].disposition = "Present"
                    /\ Len(sessions') = Len(sessions)
                    /\ \A i \in DOMAIN sessions :
                          /\ sessions'[i].user_id = sessions[i].user_id
                          /\ sessions'[i].room_id = sessions[i].room_id
                          /\ sessions'[i].start_time = sessions[i].start_time
                          /\ sessions'[i].end_time = sessions[i].end_time
                          /\ sessions'[i].last_seen =
                                IF i \in OpenRows(sessions, u) THEN t
                                ELSE sessions[i].last_seen
      ]_vars

\* An open session was refreshed at a later time than it started, and a second
\* heartbeat, of an upload that resolved another room, is about to refresh it.
C5_Witness ==
    \E p \in Uploaders : \E i \in DOMAIN sessions :
        /\ pc[p] = "touch"
        /\ sessions[i].user_id = req[p].userID
        /\ sessions[i].end_time = <<>>
        /\ sessions[i].last_seen > sessions[i].start_time
        /\ req[p].currentTime > sessions[i].last_seen
        /\ req[p].roomID # sessions[i].room_id

\* C6: an upload with disposition Absent or AbsentWithArchive goes to
\* EndSession, and EndSession sets end_time to the upload's time on the open
\* rows of its user and changes nothing else; the user is then in NoSession.
C6_AbsentEndsSession ==
    [][\A p \in Uploaders :
          LET u == req[p].userID
              t == req[p].currentTime
          IN  /\ req'[p].disposition \in {"Absent", "AbsentWithArchive"}
                    => pc'[p] = "end"
              /\ StepsFrom(p, "end") =>
                    /\ req[p].disposition \in {"Absent", "AbsentWithArchive"}
                    /\ Len(sessions') = Len(sessions)
                    /\ \A i \in DOMAIN sessions :
                          sessions'[i] =
                              IF i \in OpenRows(sessions, u)
                              THEN [sessions[i] EXCEPT !.end_time = <<t>>]
                              ELSE sessions[i]
                    /\ OpenRows(sessions', u) = {}
      ]_vars

\* Before any reaper tick, an upload has closed a session.
C6_Witness ==
    /\ now = 0
    /\ \E i \in DOMAIN sessions : sessions[i].end_time # <<>>
    /\ \E p \in Uploaders : pc[p] = "done" /\ ~req[p].storeErr

\* C7: in every reachable store state, EndSession(u, t) for a user without an
\* open session changes nothing and returns no error, and EndSession(u, t)
\* applied again, at the same or another time, changes nothing more.
C7_EndSessionIdempotent ==
    \A u \in Users : \A t \in 0..MaxTime :
        LET once == endUserSession(sessions, u, t)
        IN  /\ OpenRows(sessions, u) = {} =>
                  /\ once = sessions
                  /\ ~endUserSessionErr(sessions, u, FALSE)
            /\ \A t2 \in 0..MaxTime : endUserSession(once, u, t2) = once

\* An archiving upload ran EndSession, without a store error, for a user who
\* has a closed session and no open one; the store holds that one row.
C7_Witness ==
    \E p \in Uploaders :
        /\ pc[p] = "done"
        /\ req[p].archived
        /\ ~req[p].storeErr
        /\ uploads = 2
        /\ Len(sessions) = 1
        /\ sessions[1].end_time # <<>>

\* Identifiers compared without regard to case.
FoldCase(id) == LOWER(id)

\* The rooms the table holds for an identifier, and the positions of a list
\* of observations that resolve in the table.
RoomsOf(tbl, id) == { x.room_id : x \in { y \in tbl : FoldCase(y.id) = FoldCase(id) } }
Hits(tbl, obs) == { i \in 1..Len(obs) : RoomsOf(tbl, obs[i].id) # {} }
First(S) == CHOOSE i \in S : \A j \in S : i <= j

\* The uploads whose room resolution succeeded and that have not returned.
Placed == { p \in Uploaders : pc[p] \in {"lookup", "start", "touch"} }

C10_NoDefaultRoom ==
    [][/\ \A p \in Uploaders :
             /\ pc'[p] \in {"lookup", "start", "touch"} =>
                   /\ req'[p].roomID # 0
                   /\ \/ \E i \in DOMAIN req'[p].bleSignals :
                            req'[p].roomID \in RoomsOf(beacons', req'[p].bleSignals[i].id)
                      \/ \E i \in DOMAIN req'[p].wifiSignals :
                            req'[p].roomID \in RoomsOf(wifiAPs', req'[p].wifiSignals[i].id)
             /\ StepsFrom(p, "start") =>
                   /\ Len(sessions') = Len(sessions) + 1
                   /\ sessions'[Len(sessions')].room_id = req[p].roomID
       /\ \A i \in DOMAIN sessions' : sessions'[i].room_id # 0
      ]_vars

\* Two sessions were created, in the two rooms the uploads resolved.
C10_Witness ==
    \E i, j \in DOMAIN sessions :
        /\ sessions[i].room_id = 1
        /\ sessions[j].room_id = 2

\* Upload goroutine p takes the step, or a request is received.
Moves(p) == pc'[p] # pc[p] \/ req'[p] # req[p] \/ uploads' # uploads

\* The pc of a goroutine that is in no upload.
AtRest == {"idle", "done", "failed"}

\* The errors of determineRoomID.
RoomFailures == {"NoSignalData", "NoMatch"}

\* C11: an upload whose room resolution fails (it took Present, the only
\* dispositions that resolve a room) fails in the step that receives it,
\* before any store statement: it returns an error at once and the sessions
\* are as they were - none created, touched or closed.
C11_ResolutionFailureWritesNothing ==
    [][\A p \in Uploaders :
          (Moves(p) /\ req'[p].failure \in RoomFailures) =>
             /\ pc[p] \in AtRest
             /\ pc'[p] = "failed"
             /\ req'[p].response = "error"
             /\ sessions' = sessions]_vars

\* An upload failed on room resolution while a session was open.
C11_Witness ==
    \E p \in Uploaders :
        /\ pc[p] = "failed"
        /\ req[p].failure = "NoMatch"
        /\ req[p].bleSignals = <<>>
        /\ \E u \in Users : OpenRows(sessions, u) # {}

\* C12: an upload whose inquiry fails (its estimation lies in [20,70], the
\* arbiter was called once) fails in the step that receives it: it returns
\* an error, takes no disposition and goes to no store statement, and the
\* sessions are as they were.
C12_InquiryFailureFailsUpload ==
    [][\A p \in Uploaders :
          (Moves(p) /\ req'[p].failure = "inquiry") =>
             /\ pc[p] \in AtRest
             /\ pc'[p] = "failed"
             /\ req'[p].response = "error"
             /\ req'[p].disposition = "none"
             /\ req'[p].estimationConfidence >= 20
             /\ req'[p].estimationConfidence <= 70
             /\ req'[p].inquiryCalls = 1
             /\ sessions' = sessions]_vars

\* An upload failed on the inquiry while a session was open.
C12_Witness ==
    \E p \in Uploaders :
        /\ pc[p] = "failed"
        /\ req[p].failure = "inquiry"
        /\ req[p].estimationConfidence = 45
        /\ \E u \in Users : OpenRows(sessions, u) # {}

\* C13: no step of any interleaving of uploads and reaper ticks lowers the
\* last_seen of a session that is open before and after the step.
C13_LastSeenNeverDecreases ==
    [][\A i \in DOMAIN sessions :
          (IsOpen(sessions[i]) /\ IsOpen(sessions'[i])) =>
             sessions'[i].last_seen >= sessions[i].last_seen]_vars

\* The users of a list.
UsersIn(list) == { list[k] : k \in DOMAIN list }

\* The users that have an open session last seen before cutoff.
StaleUsers(S, cutoff) ==
    { S[i].user_id : i \in { j \in DOMAIN S : IsOpen(S[j]) /\ S[j].last_seen < cutoff } }

\* C14: with no upload running, a reaper tick at time now closes the open
\* sessions with last_seen < now - InactivityThreshold and no other: its
\* query, unless it failed, lists the users of exactly these sessions, and
\* each of its writes, unless it failed, ends the sessions of the user last
\* seen before the cutoff and leaves open every session last seen at the
\* cutoff or later.
C14_ReaperClosesExactlyStale ==
    [][/\ (reaperPC = "wait" /\ reaperPC' = "end") =>
             /\ cutoffTime' = now - InactivityThreshold
             /\ UsersIn(usersToEnd') = StaleUsers(sessions, cutoffTime')
       /\ (reaperPC = "end" /\ sessions' # sessions) =>
             \A i \in DOMAIN sessions :
                 IsOpen(sessions'[i]) =
                     (/\ IsOpen(sessions[i])
                      /\ ~(/\ sessions[i].user_id = Head(usersToEnd)
                           /\ sessions[i].last_seen < cutoffTime))]_vars

\* The reaper takes a round of its loop over usersToEnd.
ReaperWrites == reaperPC = "end" /\ usersToEnd' # usersToEnd

\* C15: when the reaper's write and the write of an upload that extends the
\* session of the same user race (no other writer ends sessions), the write
\* that lands last decides: after the reaper's write has landed the user has
\* no open session (none is left open and stale), and after the upload's
\* heartbeat has landed the user has an open session last seen at the
\* upload's time.
C15_LastWriteDecides ==
    [][/\ (ReaperWrites /\ sessions' # sessions) =>
             OpenRows(sessions', Head(usersToEnd)) = {}
       /\ \A p \in Uploaders :
             StepsFrom(p, "touch") =>
                \E i \in OpenRows(sessions', req[p].userID) :
                    sessions'[i].last_seen = req[p].currentTime]_vars

\* C16: once the uploads have stopped, with the ticker firing and the
\* reaper's store statements succeeding again and again, every open session
\* is eventually ended.
C16_SilentSessionIsClosed ==
    \A i \in 1..MaxRows :
        (i \in DOMAIN sessions /\ IsOpen(sessions[i]))
            ~> (i \in DOMAIN sessions /\ ~IsOpen(sessions[i]))

\* The reaper has ended a session that had gone silent for longer than the
\* threshold, a session of another user being ended before the uploads stopped.
C16_Witness ==
    \E i, j \in DOMAIN sessions :
        /\ sessions[i].end_time # NoEndTime
        /\ Head(sessions[i].end_time) > sessions[i].last_seen + InactivityThreshold
        /\ sessions[j].end_time = <<0>>
        /\ reaperPC = "wait"

\* C17: an upload that ends in a failure answered to the uploader (a bad
\* request, a failed estimation or inquiry, a failed room resolution, a
\* failed archive copy or response) has changed no session: the step that
\* fails it, which holds its only store statement if it has one, leaves the
\* sessions as they were.
C17_FailedUploadWritesNothing ==
    [][\A p \in Uploaders :
          (Moves(p) /\ pc'[p] = "failed") => sessions' = sessions]_vars

\* C18: no upload answers success after a store statement of it failed (the
\* lookup of the open session, the INSERT, the UPDATE of last_seen or of
\* end_time).
C18_StoreFailureFailsUpload ==
    \A p \in Uploaders : req[p].response = "ok" => ~req[p].storeErr

\* C19: a silent estimator or arbiter cannot hold an upload for ever: an
\* upload that has not returned always has a step to take by itself, and
\* where it waits for a collaborator that step is a timeout, which fails it.
C19_StalledCollaboratorTimesOut ==
    \A p \in Uploaders : pc[p] \notin AtRest => ENABLED Alone(p)

\* C20: no step of an upload or of the reaper removes a session row: the
\* table never gets shorter, and every row stays the session (session_id,
\* user, room, start) it was.
C20_RowsNeverRemoved ==
    [][/\ Len(sessions') >= Len(sessions)
       /\ \A i \in DOMAIN sessions :
             /\ sessions'[i].user_id = sessions[i].user_id
             /\ sessions'[i].room_id = sessions[i].room_id
             /\ sessions'[i].start_time = sessions[i].start_time]_vars

\* The table holds a session ended by the reaper, a session ended by an
\* upload and an open one.
C20_Witness ==
    \E i, j, k \in DOMAIN sessions :
        /\ sessions[i].end_time # NoEndTime
        /\ Head(sessions[i].end_time) > sessions[i].last_seen + InactivityThreshold
        /\ sessions[j].end_time = <<sessions[j].last_seen>>
        /\ IsOpen(sessions[k])

\* C21: session creation is create-if-absent-open: a startUserSession
\* whose INSERT lands when the user already has an open session creates no
\* row.
C21_CreateIfAbsentOpen ==
    [][\A p \in Uploaders :
          (/\ pc[p] = "start"
           /\ pc'[p] # "start"
           /\ OpenRows(sessions, req[p].userID) # {}) =>
             Len(sessions') = Len(sessions)]_vars

\* C22: when the lookup and the write of every upload and every write of
\* the reaper run under mutual exclusion per user, no two open sessions
\* belong to the same user.
C22_OneOpenUnderMutualExclusion ==
    \A i, j \in DOMAIN sessions :
        (IsOpen(sessions[i]) /\ IsOpen(sessions[j]) /\
         sessions[i].user_id = sessions[j].user_id) => i = j

\* An upload waits with its lookup for another upload of the same user,
\* which has found no open session and has not yet started one; an earlier
\* session has been ended.
C22_Witness ==
    \E p, q \in Uploaders :
        /\ pc[p] = "start"
        /\ pc[q] = "lookup"
        /\ req[p].userID = req[q].userID
        /\ \E i \in DOMAIN sessions : ~IsOpen(sessions[i])

\* The reaper takes a tick from ticker.C and runs its query.
ReaperScans == reaperPC = "wait" /\ tickPending /\ ~tickPending'

\* C23: a tick whose query fails (sessions are stale and none is listed)
\* writes nothing and leaves the reaper waiting for the next tick; the
\* reaper is always either waiting or in its loop over usersToEnd, and
\* whenever it waits and a tick has come it can run its query.
C23_FailedQuerySkipsTick ==
    /\ [][(ReaperScans /\ usersToEnd' = <<>>) =>
             (sessions' = sessions /\ reaperPC' = "wait")]_vars
    /\ [](reaperPC \in {"wait", "end"})
    /\ []((reaperPC = "wait" /\ tickPending) => ENABLED ReaperScan)

\* The query of a tick has failed: sessions are stale at the cutoff of the
\* tick, none is listed and the reaper waits for the next tick.
C23_Witness ==
    /\ reaperPC = "wait"
    /\ ~tickPending
    /\ usersToEnd = <<>>
    /\ cutoffTime = now - InactivityThreshold
    /\ Cardinality(StaleUsers(sessions, cutoffTime)) = NumUsers

\* C24: an upload is archived as a negative sample only if its disposition
\* is AbsentWithArchive (its estimation lies in [20,70] and is below the
\* inquiry confidence), and an upload that answers success is archived if
\* and only if it is; an upload that fails before its disposition is not
\* archived.
C24_ArchiveIffAbsentWithArchive ==
    [][\A p \in Uploaders :
          /\ (pc[p] \in AtRest /\ req'[p] # req[p]) => ~req'[p].archived
          /\ (p \in Deciding /\ pc'[p] \in AtRest) =>
                LET e == req[p].estimationConfidence
                    i == req[p].inquiryConfidence
                    withArchive == req[p].disposition = "AbsentWithArchive"
                IN  /\ withArchive = (e >= 20 /\ e <= 70 /\ e < i)
                    /\ req'[p].archived => withArchive
                    /\ pc'[p] = "done" => (req'[p].archived = withArchive)]_vars

\* An upload has answered success and was archived, while a session that
\* another upload opened is still open.
C24_Witness ==
    \E p \in Uploaders :
        /\ pc[p] = "done"
        /\ req[p].archived
        /\ \E u \in Users : OpenRows(sessions, u) # {}

\* The store statements of upload goroutine p, each applied as a whole.
CompleteEffects(p) ==
    { startUserSession(sessions, req[p].userID, req[p].roomID, req[p].currentTime),
      updateLastSeen(sessions, req[p].userID, req[p].currentTime),
      endUserSession(sessions, req[p].userID, req[p].currentTime) }

\* C25: an upload issues at most one statement that changes the sessions:
\* a step of an upload that changes them is a step from its INSERT or
\* UPDATE, applies that statement as a whole, and is the last step of the
\* upload.  Stopped at any point, the upload has changed nothing or applied
\* its statement completely.
C25_OneMutatingStatement ==
    [][\A p \in Uploaders :
          ((pc'[p] # pc[p] \/ req'[p] # req[p]) /\ sessions' # sessions) =>
             /\ pc[p] \in {"start", "touch", "end", "endInUpdate"}
             /\ pc'[p] \in AtRest
             /\ sessions' \in CompleteEffects(p)]_vars

\* Uploads have returned after an INSERT and after an UPDATE of last_seen.
C25_Witness ==
    /\ \A p \in Uploaders : pc[p] = "done" /\ ~req[p].storeErr
    /\ \E i \in DOMAIN sessions :
          IsOpen(sessions[i]) /\ sessions[i].last_seen > sessions[i].start_time

\* C26: a write of the reaper ends only sessions that are, when it lands,
\* open and last seen before the cutoff of the tick: no session refreshed
\* or started by an upload since the query of the tick.
C26_ReaperClosesOnlyStale ==
    [][ReaperWrites =>
          \A i \in DOMAIN sessions :
              (IsOpen(sessions[i]) /\ ~IsOpen(sessions'[i])) =>
                 sessions[i].last_seen < cutoffTime]_vars

\* C27: when the INSERT or the UPDATE of last_seen of a Present upload
\* returns without error, the write took effect: the user has an open
\* session last seen at the time of the upload, whatever the reaper and
\* the other uploads did since the upload looked for the open session.
C27_PresentWriteTakesEffect ==
    [][\A p \in Uploaders :
          (StepsFrom(p, "start") \/ StepsFrom(p, "touch")) =>
             \E i \in DOMAIN sessions' :
                 /\ sessions'[i].user_id = req[p].userID
                 /\ IsOpen(sessions'[i])
                 /\ sessions'[i].last_seen = req[p].currentTime]_vars

\* C28: in every reachable state every session has start_time <= last_seen,
\* and every ended session has start_time <= end_time and
\* last_seen <= end_time.
C28_TimesInOrder ==
    \A i \in DOMAIN sessions :
        /\ sessions[i].start_time <= sessions[i].last_seen
        /\ ~IsOpen(sessions[i]) =>
              /\ sessions[i].start_time <= Head(sessions[i].end_time)
              /\ sessions[i].last_seen <= Head(sessions[i].end_time)

\* C29: an ended session is immutable: no step of an upload or of the
\* reaper changes any field of a session whose end_time is set, and it is
\* never open again.
C29_ClosedSessionImmutable ==
    [][\A i \in DOMAIN sessions :
          ~IsOpen(sessions[i]) =>
             (i \in DOMAIN sessions' /\ sessions'[i] = sessions[i])]_vars

\* A session was ended, and after that the same user was seen again in a
\* new session, while the reaper is in its loop over usersToEnd.
C29_Witness ==
    \E i, j \in DOMAIN sessions :
        /\ i < j
        /\ ~IsOpen(sessions[i])
        /\ sessions[j].user_id = sessions[i].user_id
        /\ sessions[j].start_time > Head(sessions[i].end_time)
        /\ IsOpen(sessions[j])
        /\ reaperPC = "end"

\* C30: right after an endUserSession that returned without error, of an
\* upload or of the reaper, the user has no open session, however many
\* open sessions the user had.
C30_EndSessionClosesAllOpenRows ==
    [][/\ \A p \in Uploaders :
             (StepsFrom(p, "end") \/ StepsFrom(p, "endInUpdate")) =>
                Cardinality(OpenRows(sessions', req[p].userID)) = 0
       /\ (ReaperWrites /\ sessions' # sessions) =>
             Cardinality(OpenRows(sessions', Head(usersToEnd))) = 0]_vars

\* Two sessions of one user, open together, were ended by one statement.
C30_Witness ==
    \E i, j \in DOMAIN sessions :
        /\ i < j
        /\ sessions[i].user_id = sessions[j].user_id
        /\ ~IsOpen(sessions[i])
        /\ sessions[i].end_time = sessions[j].end_time
        /\ Head(sessions[i].end_time) >= sessions[j].start_time
        /\ OpenRows(sessions, sessions[i].user_id) = {}


\* A row of user u is created, changed or removed by the step.
RowsChange(u) ==
    \E i \in DOMAIN sessions \cup DOMAIN sessions' :
        IF i \in DOMAIN sessions /\ i \in DOMAIN sessions'
        THEN /\ sessions'[i] # sessions[i]
             /\ u \in {sessions[i].user_id, sessions'[i].user_id}
        ELSE IF i \in DOMAIN sessions'
             THEN sessions'[i].user_id = u
             ELSE sessions[i].user_id = u

\* C31: operations are isolated per user: a step creates, changes or closes
\* a session row of user u only if it is a store statement of an upload by u
\* or the reaper's endUserSession for u.
C31_PerUserIsolation ==
    [][\A u \in Users :
          RowsChange(u) =>
              \/ \E p \in Deciding : req[p].userID = u /\ pc'[p] # pc[p]
              \/ ReaperWrites /\ Head(usersToEnd) = u]_vars

\* Both users have a session: the first one's is still open after the other
\* one's, created later, was ended.
C31_Witness ==
    \E i, j \in DOMAIN sessions :
        /\ i < j
        /\ sessions[i].user_id # sessions[j].user_id
        /\ IsOpen(sessions[i])
        /\ ~IsOpen(sessions[j])


\* Between sessions and sessions' no row is created or removed and only
\* end_time of a row differs, turning from unset to set.
OnlyEndTimeSet ==
    /\ Len(sessions') = Len(sessions)
    /\ \A i \in DOMAIN sessions :
          /\ sessions'[i] = [sessions[i] EXCEPT !.end_time = sessions'[i].end_time]
          /\ sessions'[i].end_time # sessions[i].end_time =>
                 IsOpen(sessions[i]) /\ ~IsOpen(sessions'[i])

\* C32: endUserSession, called for an upload or by the reaper, changes only
\* end_time: room_id, start_time and last_seen of the rows it closes are
\* kept and no row is created; the reaper writes to the store only through
\* endUserSession (its scan writes nothing).
C32_EndSessionOnlySetsEndTime ==
    [][/\ \A p \in Uploaders :
             (pc[p] \in {"end", "endInUpdate"} /\ pc'[p] # pc[p]) => OnlyEndTimeSet
       /\ ReaperWrites => OnlyEndTimeSet
       /\ ReaperScans => sessions' = sessions]_vars

\* A session was started, refreshed later and ended later still: its
\* last_seen is neither its start_time nor its end_time.
C32_Witness ==
    \E i \in DOMAIN sessions :
        /\ ~IsOpen(sessions[i])
        /\ sessions[i].start_time < sessions[i].last_seen
        /\ sessions[i].last_seen < Head(sessions[i].end_time)


\* A round of the reaper's loop whose endUserSession failed: the user it
\* was for has an open session and the table is as it was.
ReaperEndFails ==
    /\ ReaperWrites
    /\ OpenRows(sessions, Head(usersToEnd)) # {}
    /\ sessions' = sessions

\* C33: within one sweep of the reaper, a failed endUserSession for one user
\* leaves every other user found by the scan in usersToEnd, each to be
\* tried in its turn, and the reaper goes on: it is in its loop over
\* usersToEnd with the next round ready, or waits for the next tick.
C33_FailedEndKeepsSweepGoing ==
    /\ [][ReaperEndFails =>
              /\ usersToEnd' = Tail(usersToEnd)
              /\ reaperPC' = IF usersToEnd' = <<>> THEN "wait" ELSE "end"]_vars
    /\ [][reaperPC = "end" => usersToEnd' \in {usersToEnd, Tail(usersToEnd)}]_vars
    /\ []((reaperPC = "end") = (usersToEnd # <<>>))
    /\ [](reaperPC = "end" => ENABLED ReaperEnd)
    /\ [](reaperPC \in {"wait", "end"})

\* endUserSession has failed for a user of this sweep (the user's stale
\* session is open and the user is no longer in usersToEnd) and the loop
\* goes on with another user.
C33_Witness ==
    /\ reaperPC = "end"
    /\ usersToEnd # <<>>
    /\ \E i \in DOMAIN sessions :
          /\ IsOpen(sessions[i])
          /\ sessions[i].last_seen < cutoffTime
          /\ sessions[i].user_id \notin UsersIn(usersToEnd)


\* The inquiryConfidence the handler passes to updateUserPresence: the
\* arbiter's answer in the inquiry branch, the literal 0 otherwise.
PassedInquiry(r) ==
    IF needsInquiry(r.estimationConfidence) THEN r.inquiryConfidence ELSE 0

\* C34: the handler calls updateUserPresence only with inquiryConfidence <=
\* estimationConfidence: no upload is ever in the end-session branch of
\* updateUserPresence, and an upload inside updateUserPresence took the
\* disposition Present, which is also the branch updateUserPresence takes.
C34_UpdateEndBranchUnreachable ==
    \A p \in Uploaders :
        /\ pc[p] # "endInUpdate"
        /\ pc[p] \in {"lookup", "start", "touch"} =>
              /\ PassedInquiry(req[p]) <= req[p].estimationConfidence
              /\ updateUserPresenceBranch(req[p].estimationConfidence,
                                          PassedInquiry(req[p])) = "lookup"
              /\ req[p].disposition = "Present"

\* updateUserPresence was called on a tie at the top of the inquiry range.
C34_Witness ==
    \E p \in Uploaders :
        /\ pc[p] = "lookup"
        /\ req[p].inquiryCalls = 1
        /\ req[p].estimationConfidence = InquiryHigh
        /\ req[p].inquiryConfidence = InquiryHigh

====
